---- MODULE Spec2Model ----
(***************************************************************************)
(* Model of fieldMy.py: the magnetic field of circular current loops.      *)
(*                                                                         *)
(* Three runs of the program are specified over the same variables:        *)
(*   SpecFrame  base_vectors(n), statement by statement;                   *)
(*   SpecField  magnetic_field(r, n, r0, R), statement by statement;       *)
(*   Spec       the module-level code of lines 171-179, which allocates    *)
(*              the container B and adds the field of each coil into it.   *)
(*                                                                         *)
(* Numbers.  A numpy float64 is modelled as a pair <<p, q>>:               *)
(*   q > 0   the finite value p/q, kept in lowest terms;                   *)
(*   <<1,0>> +inf,  <<-1,0>> -inf,  <<0,0>> NaN.                           *)
(* The four arithmetic operations follow IEEE-754 on the special values    *)
(* (x/0 = +-inf, 0/0 = inf-inf = inf*0 = NaN, NaN absorbs, every           *)
(* comparison with NaN is false).  On finite values they are exact as long *)
(* as the intermediate products fit the integers of the checker; beyond    *)
(* that the operands are first rounded to three decimals, the model's      *)
(* counterpart of the rounding of a float.  The sign of zero is not kept.  *)
(* Square roots are exact on rational squares and rounded to two decimals  *)
(* elsewhere; the elliptic integrals are rounded to two decimals.          *)
(***************************************************************************)
EXTENDS Integers, Sequences, FiniteSets, TLC

\* ------------------------------------------------------------------ bounds
\* Components of the directions given to base_vectors: -MaxCoord..MaxCoord.
MaxCoord == 2
\* Coordinates of the observation points: -MaxPoint..MaxPoint.
MaxPoint == 1
\* Loop radii range over -1..MaxRadius.
MaxRadius == 1
\* The superposition handles at most MaxLoops loops.
MaxLoops == 2

\* ----------------------------------------------------------------- numbers
NaN  == <<0, 0>>
PInf == <<1, 0>>
NInf == <<-1, 0>>
Zero == <<0, 1>>
One  == <<1, 1>>

Abs(i) == IF i < 0 THEN -i ELSE i
Sgn(i) == IF i < 0 THEN -1 ELSE IF i > 0 THEN 1 ELSE 0

RECURSIVE Gcd(_, _)
Gcd(a, b) == IF b = 0 THEN a ELSE Gcd(b, a % b)

\* The canonical pair of the (possibly unreduced, possibly q <= 0) fraction p/q.
Rat(p, q) ==
    IF q = 0 THEN <<Sgn(p), 0>>
    ELSE LET g == Gcd(Abs(p), Abs(q))
         IN  <<(Sgn(q) * p) \div g, Abs(q) \div g>>

Int2Num(i) == <<i, 1>>

IsNaN(a)    == a = NaN
IsInf(a)    == a = PInf \/ a = NInf
IsFinite(a) == a[2] > 0

Neg(a) == <<-a[1], a[2]>>

Max(i, j) == IF i < j THEN j ELSE i

\* x * y stays far below 2^31.
Fits(x, y) == Abs(x) <= 1000000000 \div (Abs(y) + 1)

\* floor(a * s) for a finite a and a scale s <= 10000, without overflow.
Floor(a, s) ==
    LET d == (Max(Abs(a[1]), a[2]) \div (1000000000 \div s)) + 1
    IN  ((a[1] \div d) * s) \div Max(1, a[2] \div d)

\* The finite a rounded down to a multiple of 1/s.
Grid(a, s) == Rat(Floor(a, s), s)

AddFits(a, b) == Fits(a[1], b[2]) /\ Fits(b[1], a[2]) /\ Fits(a[2], b[2])

AddExact(a, b) ==
    LET g == Gcd(a[2], b[2])
    IN  Rat(a[1] * (b[2] \div g) + b[1] * (a[2] \div g), (a[2] \div g) * b[2])

Add(a, b) ==
    IF IsNaN(a) \/ IsNaN(b) THEN NaN
    ELSE IF IsInf(a) /\ IsInf(b) THEN (IF a = b THEN a ELSE NaN)
    ELSE IF IsInf(a) THEN a
    ELSE IF IsInf(b) THEN b
    ELSE IF AddFits(a, b) THEN AddExact(a, b)
    ELSE IF AddFits(Grid(a, 1000), Grid(b, 1000))
         THEN AddExact(Grid(a, 1000), Grid(b, 1000))
    ELSE AddExact(Grid(a, 1), Grid(b, 1))

Sub(a, b) == Add(a, Neg(b))

MulFits(a, b) == Fits(a[1], b[1]) /\ Fits(a[2], b[2])

MulExact(a, b) ==
    LET g1 == Gcd(Abs(a[1]), b[2])
        g2 == Gcd(Abs(b[1]), a[2])
    IN  Rat((a[1] \div g1) * (b[1] \div g2), (a[2] \div g2) * (b[2] \div g1))

\* inf * 0 = NaN, NaN * x = NaN, inf * x = +-inf.
Mul(a, b) ==
    IF a[2] = 0 \/ b[2] = 0
    THEN (IF IsNaN(a) \/ IsNaN(b) THEN NaN ELSE <<Sgn(a[1]) * Sgn(b[1]), 0>>)
    ELSE IF MulFits(a, b) THEN MulExact(a, b)
    ELSE IF MulFits(Grid(a, 1000), Grid(b, 1000))
         THEN MulExact(Grid(a, 1000), Grid(b, 1000))
    ELSE MulExact(Grid(a, 1), Grid(b, 1))

\* 1/0 = +inf, 1/inf = 0, 1/NaN = NaN.
Recip(a) ==
    IF IsNaN(a) THEN NaN
    ELSE IF IsInf(a) THEN Zero
    ELSE IF a[1] = 0 THEN PInf
    ELSE Rat(a[2], a[1])

Div(a, b) == Mul(a, Recip(b))

Sq(a) == Mul(a, a)

\* == and < of floats: false as soon as one side is NaN.
NumEq(a, b) == ~IsNaN(a) /\ ~IsNaN(b) /\ a = b
NumLt(a, b) ==
    /\ ~IsNaN(a) /\ ~IsNaN(b) /\ a # b
    /\ \/ a = NInf
       \/ b = PInf
       \/ IsFinite(a) /\ IsFinite(b) /\ Sub(a, b)[1] < 0

NumAbs(a) == <<Abs(a[1]), a[2]>>

\* floor(sqrt(k)) for a natural k, by bisection on lo..hi.
RECURSIVE ISqrtIn(_, _, _)
ISqrtIn(k, lo, hi) ==
    IF lo >= hi THEN lo
    ELSE LET mid == (lo + hi + 1) \div 2
         IN  IF mid * mid <= k THEN ISqrtIn(k, mid, hi) ELSE ISqrtIn(k, lo, mid - 1)

ISqrt(k) == ISqrtIn(k, 0, IF k < 46340 THEN k ELSE 46340)

\* np.sqrt: NaN for NaN and for negative arguments (-inf included), exact on
\* rational squares, rounded down to two decimals otherwise.
Sqrt(a) ==
    IF IsNaN(a) \/ a[1] < 0 THEN NaN
    ELSE IF a = PInf THEN PInf
    ELSE IF Fits(a[1], a[2]) /\ ISqrt(a[1] * a[2]) * ISqrt(a[1] * a[2]) = a[1] * a[2]
         THEN Rat(ISqrt(a[1] * a[2]), a[2])
    ELSE Rat(ISqrt(Floor(a, 10000)), 100)

\* ----------------------------------------------------------------- vectors
IVec(i, j, k) == <<Int2Num(i), Int2Num(j), Int2Num(k)>>

VAdd(u, v) == <<Add(u[1], v[1]), Add(u[2], v[2]), Add(u[3], v[3])>>
VSub(u, v) == <<Sub(u[1], v[1]), Sub(u[2], v[2]), Sub(u[3], v[3])>>
VDivS(u, s) == <<Div(u[1], s), Div(u[2], s), Div(u[3], s)>>
Dot(u, v) == Add(Add(Mul(u[1], v[1]), Mul(u[2], v[2])), Mul(u[3], v[3]))
SumSq(u) == Dot(u, u)
Cross(u, v) ==
    << Sub(Mul(u[2], v[3]), Mul(u[3], v[2])),
       Sub(Mul(u[3], v[1]), Mul(u[1], v[3])),
       Sub(Mul(u[1], v[2]), Mul(u[2], v[1])) >>

VFinite(u) == IsFinite(u[1]) /\ IsFinite(u[2]) /\ IsFinite(u[3])
ZeroVec == <<Zero, Zero, Zero>>

\* ------------------------------------------------- scipy.special.ellipk/ellipe
\* The arithmetic-geometric mean of a and b in thousandths, `steps' rounds,
\* together with the sum of 2^(j-1) * c_j^2 (c_j the half differences) that the
\* second-kind integral needs.  Returns <<a_final, sum>>.
RECURSIVE Agm(_, _, _, _, _)
Agm(a, b, steps, w, acc) ==
    IF steps = 0 THEN <<a, acc>>
    ELSE LET c == (a - b) \div 2
         IN  Agm((a + b) \div 2, ISqrt(a * b), steps - 1, 2 * w,
                 acc + w * ((c * c) \div 1000))

\* The parameter m in thousandths (finite m only).
Milli(a) == Floor(a, 1000)

AgmOf(a) == Agm(1000, ISqrt((1000 - Milli(a)) * 1000), 4, 1, 0)

\* pi/2 to two decimals: K(0) = E(0) = HalfPi.
HalfPi == Rat(157, 100)

\* Complete elliptic integral of the first kind, parameter m = k^2:
\* K(m) = pi / (2 agm(1, sqrt(1-m))); NaN for m > 1, +inf at m = 1, 0 at -inf.
EllipK(a) ==
    IF IsNaN(a) \/ NumLt(One, a) THEN NaN
    ELSE IF a = One THEN PInf
    ELSE IF a = NInf THEN Zero
    ELSE Rat((157 * 1000) \div AgmOf(a)[1], 100)

\* Complete elliptic integral of the second kind:
\* E(m) = K(m) * (1 - m/2 - sum_j 2^(j-1) c_j^2); NaN for m > 1, 1 at m = 1,
\* +inf at -inf.
EllipE(a) ==
    IF IsNaN(a) \/ NumLt(One, a) THEN NaN
    ELSE IF a = One THEN One
    ELSE IF a = NInf THEN PInf
    ELSE LET r == AgmOf(a)
         IN  Rat((157 * (1000 - (Milli(a) \div 2) - r[2])) \div r[1], 100)

\* ------------------------------------------------------------ np.arctan etc.
\* An angle is kept as the pair <<cos, sin>> of its cosine and sine, so that
\* arctan, cos and sin need no series: arctan(t) lies in [-pi/2, pi/2] and has
\* cos = 1/sqrt(1+t^2) >= 0 and sin = t/sqrt(1+t^2).
Theta0 == <<One, Zero>>

Arctan(t) ==
    IF IsNaN(t) THEN <<NaN, NaN>>
    ELSE IF t = PInf THEN <<Zero, One>>
    ELSE IF t = NInf THEN <<Zero, Neg(One)>>
    ELSE LET h == Sqrt(Add(One, Sq(t)))
         IN  <<Recip(h), Div(t, h)>>

Cos(th) == th[1]
Sin(th) == th[2]

\* ------------------------------------------------------------- base_vectors

\* Variant of NormalizeN that leaves a vector of zero length as it is.
NormalizeN_SkipZero(n) == IF SumSq(n) = Zero THEN n ELSE VDivS(n, SumSq(n))

\* line 35: n / (n**2).sum(axis=-1)
NormalizeN(n) == VDivS(n, SumSq(n))

\* lines 39-42: the vector chosen perpendicular to (the rescaled) n
ChooseTangent(n) ==
    IF NumEq(NumAbs(n[1]), One)
    THEN <<n[3], Zero, Neg(n[1])>>
    ELSE <<Zero, n[3], Neg(n[2])>>

\* line 44: l / (l**2).sum(axis=-1)
NormalizeL(l) == VDivS(l, SumSq(l))

\* base_vectors(n): the triple <<n, l, m>> it returns
BaseVectors(n) ==
    LET n1 == NormalizeN(n)
        l1 == NormalizeL(ChooseTangent(n1))
    IN  <<n1, l1, Cross(n1, l1)>>

\* ----------------------------------------------------------- magnetic_field
\* line 79: np.vstack((l, m, n)) of a frame f = <<n, l, m>>
Trans(f) == <<f[2], f[3], f[1]>>

Det3(M) == Dot(M[1], Cross(M[2], M[3]))

\* line 81: np.linalg.inv raises LinAlgError on an exactly singular matrix
Singular(M) == Det3(M) = Zero

\* line 81: the inverse of a 3x3 matrix (rows of the adjugate over the
\* determinant); a NaN determinant makes every entry NaN.
Inv3(M) ==
    LET d  == Det3(M)
        c1 == VDivS(Cross(M[2], M[3]), d)
        c2 == VDivS(Cross(M[3], M[1]), d)
        c3 == VDivS(Cross(M[1], M[2]), d)
    IN  << <<c1[1], c2[1], c3[1]>>,
           <<c1[2], c2[2], c3[2]>>,
           <<c1[3], c2[3], c3[3]>> >>

\* np.dot(v, M) for a row vector v
VecMat(v, M) ==
    [j \in 1..3 |-> Add(Add(Mul(v[1], M[1][j]), Mul(v[2], M[2][j])), Mul(v[3], M[3][j]))]

\* lines 84-86: the point seen from the centre of the coil, in the coil frame
Local(p, r0, f) == VecMat(VSub(p, r0), Inv3(Trans(f)))

\* line 94
RhoOf(x, y) == Sqrt(Add(Sq(x), Sq(y)))

\* Variant of ThetaOf without line 96.
ThetaOf_NoOverride(x, y) == Arctan(Div(x, y))

\* Variant of ThetaOf that also forces a NaN angle to 0.
ThetaOf_NaNToZero(x, y) ==
    IF NumEq(y, Zero) \/ IsNaN(Div(x, y)) THEN Theta0 ELSE Arctan(Div(x, y))

\* lines 95-96: arctan(x/y), forced to 0 where y == 0
ThetaOf(x, y) == IF NumEq(y, Zero) THEN Theta0 ELSE Arctan(Div(x, y))

\* lines 98-99: the argument handed to ellipe and ellipk
EllipArg(R, rho, z) ==
    Div(Mul(Int2Num(4), Mul(R, rho)), Add(Sq(Add(R, rho)), Sq(z)))

\* Variant of BzOf that leaves out the K term of line 101.
BzOf_NoK(R, rho, z, E, K) ==
    Mul(Recip(Sqrt(Add(Sq(Add(R, rho)), Sq(z)))),
        Div(Mul(E, Sub(Sub(Sq(R), Sq(rho)), Sq(z))),
            Add(Sq(Sub(R, rho)), Sq(z))))

\* lines 100-103
BzOf(R, rho, z, E, K) ==
    Mul(Recip(Sqrt(Add(Sq(Add(R, rho)), Sq(z)))),
        Add(K, Div(Mul(E, Sub(Sub(Sq(R), Sq(rho)), Sq(z))),
                   Add(Sq(Sub(R, rho)), Sq(z)))))

\* Variant of BrhoOf that leaves rho out of the divisor of line 104.
BrhoOf_NoRho(R, rho, z, E, K) ==
    Mul(Div(z, Sqrt(Add(Sq(Add(R, rho)), Sq(z)))),
        Add(Neg(K), Div(Mul(E, Add(Add(Sq(R), Sq(rho)), Sq(z))),
                        Add(Sq(Sub(R, rho)), Sq(z)))))

\* lines 104-107
BrhoOf(R, rho, z, E, K) ==
    Mul(Div(z, Mul(rho, Sqrt(Add(Sq(Add(R, rho)), Sq(z))))),
        Add(Neg(K), Div(Mul(E, Add(Add(Sq(R), Sq(rho)), Sq(z))),
                        Add(Sq(Sub(R, rho)), Sq(z)))))

\* Variant of ZeroNonFinite without lines 110 and 112 (the isnan ones).
ZeroNonFinite_InfOnly(v) == IF IsInf(v) THEN Zero ELSE v

\* lines 110-113: x[np.isnan(x)] = 0; x[np.isinf(x)] = 0
ZeroNonFinite(v) == IF IsNaN(v) \/ IsInf(v) THEN Zero ELSE v

\* line 115
Reconstruct(th, Brho, Bz) == <<Mul(Cos(th), Brho), Mul(Sin(th), Brho), Bz>>

\* line 118
Rotate(b, f) == VecMat(b, Trans(f))

\* magnetic_field for one row of r, given the frame f of the coil
FieldAt(p, f, r0, R) ==
    LET c   == Local(p, r0, f)
        rho == RhoOf(c[1], c[2])
        th  == ThetaOf(c[1], c[2])
        a   == EllipArg(R, rho, c[3])
        E   == EllipE(a)
        K   == EllipK(a)
        Bz  == ZeroNonFinite(BzOf(R, rho, c[3], E, K))
        Br  == ZeroNonFinite(BrhoOf(R, rho, c[3], E, K))
    IN  Rotate(Reconstruct(th, Br, Bz), f)

\* magnetic_field(r, n, r0, R) where it returns: one field vector per row of r
MagneticField(r, n, r0, R) ==
    LET f == BaseVectors(n)
    IN  [i \in 1..Len(r) |-> FieldAt(r[i], f, r0, R)]

\* ------------------------------------------------------------------- state
VARIABLES
    pc,      \* position in the script or in the function being run
    out,     \* how the run ended: "none" while running, "returned", "LinAlgError"
    dir,     \* the direction handed to base_vectors / magnetic_field (argument n)
    r0, R,   \* centre and radius of the coil (arguments of magnetic_field)
    r,       \* the observation points, one row each
    n, l, m, \* locals of base_vectors
    loc,     \* rows of r in the coil frame (r after line 86)
    rho, theta, E, K, Bz, Brho,   \* locals of magnetic_field, one entry per row
    Bf,      \* the local B of magnetic_field
    coils,   \* the script's zip(n, r0, R)
    k,       \* index of the coil the script's loop is at (0: not in the loop)
    B        \* the script's container matrix

vars == <<pc, out, dir, r0, R, r, n, l, m, loc, rho, theta, E, K, Bz, Brho, Bf,
          coils, k, B>>

None == <<>>

\* --------------------------------------------------------------- input sets
Coords == -MaxCoord..MaxCoord
\* Directions with a non-finite component, next to the integer ones.
OddDirections == {<<PInf, Zero, Zero>>, <<Zero, NaN, One>>, <<Rat(1, 2), Zero, Zero>>}
Directions == {IVec(a, b, c) : a \in Coords, b \in Coords, c \in Coords} \cup OddDirections

PointCoords == -MaxPoint..MaxPoint
BadPoints == {<<NaN, Zero, Zero>>, <<Zero, PInf, One>>, <<One, Zero, NInf>>}
Points == {IVec(a, b, c) : a \in PointCoords, b \in PointCoords, c \in PointCoords}
              \cup BadPoints

\* r: every single row, and some batches of two rows
PairPoints == {IVec(0, 0, 0), IVec(0, 1, 1), <<NaN, Zero, Zero>>}
Batches == {<<p>> : p \in Points} \cup {<<p, q>> : p \in PairPoints, q \in PairPoints}

Radii == {Int2Num(i) : i \in -1..MaxRadius}
Centres == {IVec(0, 0, 0), IVec(0, 0, 1)}
CoilNormals == {IVec(0, 0, 1), IVec(1, 0, 0), IVec(0, 1, 0), IVec(0, 0, -1),
                IVec(0, 0, 2), IVec(1, 1, 1), IVec(2, 0, 0)}

\* ------------------------------------------- base_vectors, statement by statement
InitFrame ==
    /\ pc = "bv_normalize" /\ out = "none"
    /\ dir \in Directions
    /\ n = dir /\ l = None /\ m = None
    /\ r0 = None /\ R = None /\ r = None /\ loc = None /\ rho = None
    /\ theta = None /\ E = None /\ K = None /\ Bz = None /\ Brho = None
    /\ Bf = None /\ coils = None /\ k = 0 /\ B = None

\* line 35
BvNormalize ==
    /\ pc = "bv_normalize"
    /\ n' = NormalizeN(n)
    /\ pc' = "bv_choose"
    /\ UNCHANGED <<out, dir, r0, R, r, l, m, loc, rho, theta, E, K, Bz, Brho, Bf,
                   coils, k, B>>

\* lines 39-42
BvChoose ==
    /\ pc = "bv_choose"
    /\ l' = ChooseTangent(n)
    /\ pc' = "bv_normalize_l"
    /\ UNCHANGED <<out, dir, r0, R, r, n, m, loc, rho, theta, E, K, Bz, Brho, Bf,
                   coils, k, B>>

\* line 44
BvNormalizeL ==
    /\ pc = "bv_normalize_l"
    /\ l' = NormalizeL(l)
    /\ pc' = "bv_cross"
    /\ UNCHANGED <<out, dir, r0, R, r, n, m, loc, rho, theta, E, K, Bz, Brho, Bf,
                   coils, k, B>>

\* lines 45-46
BvCross ==
    /\ pc = "bv_cross"
    /\ m' = Cross(n, l)
    /\ pc' = "done" /\ out' = "returned"
    /\ UNCHANGED <<dir, r0, R, r, n, l, loc, rho, theta, E, K, Bz, Brho, Bf,
                   coils, k, B>>

NextFrame == BvNormalize \/ BvChoose \/ BvNormalizeL \/ BvCross

SpecFrame == InitFrame /\ [][NextFrame]_vars

\* ----------------------------------------- magnetic_field, statement by statement
InitField ==
    /\ pc = "mf_frame" /\ out = "none"
    /\ dir \in CoilNormals
    /\ r0 \in Centres
    /\ R \in Radii
    /\ r \in Batches
    /\ n = None /\ l = None /\ m = None /\ loc = None /\ rho = None
    /\ theta = None /\ E = None /\ K = None /\ Bz = None /\ Brho = None
    /\ Bf = None /\ coils = None /\ k = 0 /\ B = None

\* lines 76-81: the frame and both matrices; inv raises on a singular trans
MfFrame ==
    /\ pc = "mf_frame"
    /\ n' = BaseVectors(dir)[1]
    /\ l' = BaseVectors(dir)[2]
    /\ m' = BaseVectors(dir)[3]
    /\ IF Singular(Trans(BaseVectors(dir)))
       THEN pc' = "done" /\ out' = "LinAlgError"
       ELSE pc' = "mf_local" /\ out' = out
    /\ UNCHANGED <<dir, r0, R, r, loc, rho, theta, E, K, Bz, Brho, Bf, coils, k, B>>

\* lines 84-86
MfLocal ==
    /\ pc = "mf_local"
    /\ loc' = [i \in 1..Len(r) |-> Local(r[i], r0, <<n, l, m>>)]
    /\ pc' = "mf_polar"
    /\ UNCHANGED <<out, dir, r0, R, r, n, l, m, rho, theta, E, K, Bz, Brho, Bf,
                   coils, k, B>>

\* lines 91-96
MfPolar ==
    /\ pc = "mf_polar"
    /\ rho' = [i \in 1..Len(r) |-> RhoOf(loc[i][1], loc[i][2])]
    /\ theta' = [i \in 1..Len(r) |-> ThetaOf(loc[i][1], loc[i][2])]
    /\ pc' = "mf_elliptic"
    /\ UNCHANGED <<out, dir, r0, R, r, n, l, m, loc, E, K, Bz, Brho, Bf, coils, k, B>>

\* lines 98-99
MfElliptic ==
    /\ pc = "mf_elliptic"
    /\ E' = [i \in 1..Len(r) |-> EllipE(EllipArg(R, rho[i], loc[i][3]))]
    /\ K' = [i \in 1..Len(r) |-> EllipK(EllipArg(R, rho[i], loc[i][3]))]
    /\ pc' = "mf_field"
    /\ UNCHANGED <<out, dir, r0, R, r, n, l, m, loc, rho, theta, Bz, Brho, Bf,
                   coils, k, B>>

\* lines 100-107
MfField ==
    /\ pc = "mf_field"
    /\ Bz' = [i \in 1..Len(r) |-> BzOf(R, rho[i], loc[i][3], E[i], K[i])]
    /\ Brho' = [i \in 1..Len(r) |-> BrhoOf(R, rho[i], loc[i][3], E[i], K[i])]
    /\ pc' = "mf_singular"
    /\ UNCHANGED <<out, dir, r0, R, r, n, l, m, loc, rho, theta, E, K, Bf, coils, k, B>>

\* lines 110-113
MfSingular ==
    /\ pc = "mf_singular"
    /\ Brho' = [i \in 1..Len(r) |-> ZeroNonFinite(Brho[i])]
    /\ Bz' = [i \in 1..Len(r) |-> ZeroNonFinite(Bz[i])]
    /\ pc' = "mf_reconstruct"
    /\ UNCHANGED <<out, dir, r0, R, r, n, l, m, loc, rho, theta, E, K, Bf, coils, k, B>>

\* line 115
MfReconstruct ==
    /\ pc = "mf_reconstruct"
    /\ Bf' = [i \in 1..Len(r) |-> Reconstruct(theta[i], Brho[i], Bz[i])]
    /\ pc' = "mf_rotate"
    /\ UNCHANGED <<out, dir, r0, R, r, n, l, m, loc, rho, theta, E, K, Bz, Brho,
                   coils, k, B>>

\* lines 118-119: the return, to the script's line 179 when the script called
MfRotate ==
    /\ pc = "mf_rotate"
    /\ Bf' = [i \in 1..Len(r) |-> Rotate(Bf[i], <<n, l, m>>)]
    /\ IF k = 0
       THEN pc' = "done" /\ out' = "returned"
       ELSE pc' = "add" /\ out' = out
    /\ UNCHANGED <<dir, r0, R, r, n, l, m, loc, rho, theta, E, K, Bz, Brho,
                   coils, k, B>>

NextField ==
    \/ MfFrame \/ MfLocal \/ MfPolar \/ MfElliptic \/ MfField
    \/ MfSingular \/ MfReconstruct \/ MfRotate

SpecField == InitField /\ [][NextField]_vars

\* ------------------------------------------------ the script, lines 171-179
\* np.empty_like hands out memory as it finds it: any content is possible.
Garbage == {ZeroVec, IVec(7, -3, 1), <<NaN, NaN, NaN>>}

\* line 173: np.empty_like(r)
EmptyLike(rr) == [1..Len(rr) -> Garbage]

ScriptPoints == {IVec(0, 0, 0), IVec(0, 1, 1), IVec(1, 0, 0), IVec(1, 1, 0)}
ScriptCoils ==
    { [n |-> IVec(0, 0, 1), r0 |-> IVec(0, 0, 1),  R |-> One],
      [n |-> IVec(0, 0, 1), r0 |-> IVec(0, 0, -1), R |-> One],
      [n |-> IVec(1, 0, 0), r0 |-> IVec(0, 0, 0),  R |-> Int2Num(2)] }

SeqsUpTo(S, len) == UNION {[1..j -> S] : j \in 0..len}

Init ==
    /\ pc = "alloc" /\ out = "none"
    /\ r \in [1..2 -> ScriptPoints]
    /\ coils \in SeqsUpTo(ScriptCoils, MaxLoops)
    /\ k = 0 /\ B = None
    /\ dir = None /\ r0 = None /\ R = None
    /\ n = None /\ l = None /\ m = None /\ loc = None /\ rho = None
    /\ theta = None /\ E = None /\ K = None /\ Bz = None /\ Brho = None /\ Bf = None

\* line 173
Alloc ==
    /\ pc = "alloc"
    /\ B' \in EmptyLike(r)
    /\ k' = 1
    /\ pc' = "loop"
    /\ UNCHANGED <<out, dir, r0, R, r, n, l, m, loc, rho, theta, E, K, Bz, Brho, Bf,
                   coils>>

\* line 179: B += ..., element by element
Accumulate(acc, f) == [i \in 1..Len(acc) |-> VAdd(acc[i], f[i])]

\* lines 175-179: the next coil is taken and magnetic_field is entered
Call ==
    /\ pc = "loop"
    /\ k <= Len(coils)
    /\ dir' = coils[k].n
    /\ r0' = coils[k].r0
    /\ R' = coils[k].R
    /\ pc' = "mf_frame"
    /\ UNCHANGED <<out, r, n, l, m, loc, rho, theta, E, K, Bz, Brho, Bf, coils, k, B>>

\* line 179: what magnetic_field returned is added into B
AddField ==
    /\ pc = "add"
    /\ B' = Accumulate(B, Bf)
    /\ k' = k + 1
    /\ pc' = "loop"
    /\ UNCHANGED <<out, dir, r0, R, r, n, l, m, loc, rho, theta, E, K, Bz, Brho, Bf,
                   coils>>

\* the loop is exhausted: B is the field the rest of the script uses
Finish ==
    /\ pc = "loop"
    /\ k > Len(coils)
    /\ pc' = "done" /\ out' = "returned"
    /\ UNCHANGED <<dir, r0, R, r, n, l, m, loc, rho, theta, E, K, Bz, Brho, Bf,
                   coils, k, B>>

Next ==
    \/ Alloc \/ Call \/ AddField \/ Finish
    \/ MfFrame \/ MfLocal \/ MfPolar \/ MfElliptic \/ MfField
    \/ MfSingular \/ MfReconstruct \/ MfRotate

Spec == Init /\ [][Next]_vars

\* ================================================================== claims
NaNVec == <<NaN, NaN, NaN>>
Origin == IVec(0, 0, 0)
ZAxis  == IVec(0, 0, 1)

\* A direction of zero or non-finite magnitude.
Degenerate(d) == d = ZeroVec \/ ~IsFinite(SumSq(d))
NonZeroDirection(d) == VFinite(d) /\ d # ZeroVec

\* Which of the three runs a state belongs to.
InFrame  == r = None
InScript == r # None /\ (pc = "alloc" \/ B # None)
InField  == r # None /\ pc # "alloc" /\ B = None

FrameReturned == InFrame /\ pc = "done" /\ out = "returned"

\* ---- C1.  For every non-zero direction, unit length or not, base_vectors
\* returns three vectors of length 1, pairwise orthogonal and right-handed
\* (n x l = m and l x m = n).
ClaimFrameOrthonormal ==
    (FrameReturned /\ NonZeroDirection(dir)) =>
        /\ SumSq(n) = One /\ SumSq(l) = One /\ SumSq(m) = One
        /\ Dot(n, l) = Zero /\ Dot(n, m) = Zero /\ Dot(l, m) = Zero
        /\ Cross(n, l) = m /\ Cross(l, m) = n

\* ---- C9.  For every non-zero direction the tangent chosen at lines 39-42 has
\* non-zero length before line 44 divides by it, so that division never
\* yields NaN.
ClaimTangentNonZero ==
    /\ (InFrame /\ pc = "bv_normalize_l" /\ NonZeroDirection(dir)) =>
           (VFinite(l) /\ SumSq(l) # Zero)
    /\ (FrameReturned /\ NonZeroDirection(dir)) =>
           (~IsNaN(l[1]) /\ ~IsNaN(l[2]) /\ ~IsNaN(l[3]))

\* ---- C4 as stated.  base_vectors on a direction of zero or non-finite
\* magnitude ends in DegenerateDirectionError and returns no frame.
ClaimDegenerateRejected ==
    (InFrame /\ pc = "done" /\ Degenerate(dir)) =>
        out = "DegenerateDirectionError"

\* ---- C4 as amended.  base_vectors on a direction of zero or non-finite
\* magnitude raises nothing: it returns a frame whose two tangents are NaN in
\* every component and whose normal has a NaN component.
DegenerateYieldsNaNFrame ==
    (InFrame /\ pc = "done" /\ Degenerate(dir)) =>
        /\ out = "returned"
        /\ l = NaNVec /\ m = NaNVec
        /\ \E i \in 1..3 : IsNaN(n[i])

WitnessDegenerate == FrameReturned /\ dir = ZeroVec /\ n = NaNVec

\* ---- C2.  The superposition starts from zero vectors: the container holds
\* zeros when the loop over the coils starts, and with no coil at all the
\* result is the zero vector at every point.
ClaimAccumulatorStartsZero ==
    /\ (InScript /\ pc = "loop" /\ k = 1) => \A i \in 1..Len(r) : B[i] = ZeroVec
    /\ (InScript /\ pc = "done" /\ out = "returned" /\ Len(coils) = 0) =>
           \A i \in 1..Len(r) : B[i] = ZeroVec

\* ---- C3.  After the loop has processed two coils the container holds, at
\* every point i, the sum of the two coils' fields at point i and nothing else.
ClaimSuperposition ==
    (InScript /\ pc = "done" /\ out = "returned" /\ Len(coils) = 2) =>
        \A i \in 1..Len(r) :
            B[i] = VAdd(MagneticField(r, coils[1].n, coils[1].r0, coils[1].R)[i],
                        MagneticField(r, coils[2].n, coils[2].r0, coils[2].R)[i])

\* magnetic_field has run to its end (either way)
FieldDone == InField /\ pc = "done"

\* ---- C5 as stated.  magnetic_field with a radius R <= 0 ends in
\* InvalidLoopGeometryError and returns no field value.
ClaimInvalidRadiusRejected ==
    (FieldDone /\ ~NumLt(Zero, R)) =>
        (out = "InvalidLoopGeometryError" /\ Bf = None)

\* ---- C5 as amended.  magnetic_field with a radius R <= 0 raises nothing: it
\* returns one field vector per point, computed by the same formulas as for
\* R > 0.  For a loop at the origin with normal (0,0,1) the centre gets
\* (0, 0, pi) with R = -1 and (0, 0, 0) with R = 0.
NonPositiveRadiusReturns ==
    (FieldDone /\ ~NumLt(Zero, R)) =>
        /\ out = "returned"
        /\ Len(Bf) = Len(r)
        /\ (dir = ZAxis /\ r0 = Origin /\ r = <<Origin>>) =>
               /\ R = Int2Num(-1) => Bf[1] = <<Zero, Zero, Add(HalfPi, HalfPi)>>
               /\ R = Zero => Bf[1] = ZeroVec

WitnessNonPositiveRadius ==
    /\ FieldDone /\ out = "returned"
    /\ R = Zero /\ dir = ZAxis /\ r0 = Origin /\ r = <<Origin>>
    /\ Bf = <<ZeroVec>>

\* ---- C6 as stated.  A non-finite coordinate of an observation point ends
\* magnetic_field in InvalidInputError; the substitution of lines 110-113 never
\* turns what derives from it into 0.
ClaimNonFinitePointRejected ==
    /\ (FieldDone /\ \E i \in 1..Len(r) : ~VFinite(r[i])) => out = "InvalidInputError"
    /\ (InField /\ pc = "mf_reconstruct") =>
           \A i \in 1..Len(r) : ~VFinite(r[i]) => (Brho[i] # Zero /\ Bz[i] # Zero)

\* ---- C6 as amended.  A non-finite coordinate of an observation point raises
\* nothing: Brho and Bz of that point come out NaN and lines 110-113 replace
\* both by 0, and the vector returned for the point is NaN in every component.
NonFinitePointYieldsNaN ==
    /\ (InField /\ pc = "mf_singular") =>
           \A i \in 1..Len(r) : ~VFinite(r[i]) => (IsNaN(Brho[i]) /\ IsNaN(Bz[i]))
    /\ (InField /\ pc = "mf_reconstruct") =>
           \A i \in 1..Len(r) : ~VFinite(r[i]) => (Brho[i] = Zero /\ Bz[i] = Zero)
    /\ FieldDone =>
           \A i \in 1..Len(r) : ~VFinite(r[i]) => (out = "returned" /\ Bf[i] = NaNVec)

WitnessNonFinitePoint ==
    FieldDone /\ out = "returned" /\ r = << <<NaN, Zero, Zero>> >> /\ Bf = <<NaNVec>>

\* A loop at the origin with normal (0,0,1) and R > 0, and a point of its axis.
OnAxisLoop == InField /\ dir = ZAxis /\ r0 = Origin /\ NumLt(Zero, R)
OnAxisPoint(p) == VFinite(p) /\ p[1] = Zero /\ p[2] = Zero

\* ---- C7.  On the axis (z = 0 included) line 104 divides by rho = 0 and Brho
\* comes out non-finite; lines 110-111 replace it by 0, the call returns
\* normally, and the field returned has x and y components exactly 0.
OnAxisRadialZero ==
    OnAxisLoop =>
        \A i \in 1..Len(r) : OnAxisPoint(r[i]) =>
            /\ pc = "mf_singular" => (rho[i] = Zero /\ ~IsFinite(Brho[i]))
            /\ pc \in {"mf_reconstruct", "mf_rotate"} => Brho[i] = Zero
            /\ pc = "done" => (out = "returned" /\ Bf[i][1] = Zero /\ Bf[i][2] = Zero)

WitnessOnAxis ==
    /\ OnAxisLoop /\ pc = "done" /\ r = <<IVec(0, 0, 1)>>
    /\ Brho[1] = Zero /\ Bf[1][1] = Zero /\ Bf[1][3] # Zero

CentreCase ==
    /\ InField
    /\ dir = ZAxis /\ r0 = Origin /\ R = One /\ r = <<Origin>>

\* ---- C8 as stated.  For R = 1, a loop at the origin with normal (0,0,1), the
\* field at the centre has axial component 1 and radial component 0.
ClaimCentreFieldOne ==
    (CentreCase /\ pc = "done") => (Bf[1][3] = One /\ Brho[1] = Zero)

\* ---- C8 as amended.  There m = 0 and K = E = pi/2, and the formula of lines
\* 100-103 gives the axial component K(0) + E(0) = pi, not 1; the radial
\* component is 0.
CentreFieldPi ==
    CentreCase =>
        /\ pc = "mf_field" => (K[1] = HalfPi /\ E[1] = HalfPi)
        /\ pc = "mf_singular" => Bz[1] = Add(HalfPi, HalfPi)
        /\ pc = "done" => (Bf[1] = <<Zero, Zero, Add(HalfPi, HalfPi)>> /\ Brho[1] = Zero)

WitnessCentre == CentreCase /\ pc = "done" /\ Bf[1][3] = Rat(314, 100)

\* ---- C10.  Where the coil-frame y of a point is exactly 0 (x zero or not)
\* theta is exactly 0 and line 115 yields (Brho, 0, Bz); where y is not 0,
\* theta is arctan(x/y), whose cosine is never negative (atan2 would make it
\* negative for y < 0).
ThetaConvention ==
    InField =>
        \A i \in 1..Len(r) :
            /\ (pc \in {"mf_elliptic", "mf_field", "mf_singular", "mf_reconstruct"}
                    /\ NumEq(loc[i][2], Zero)) => theta[i] = Theta0
            /\ (pc = "mf_rotate" /\ NumEq(loc[i][2], Zero)) =>
                   Bf[i] = <<Brho[i], Zero, Bz[i]>>
            /\ (pc = "mf_elliptic" /\ ~NumEq(loc[i][2], Zero)) =>
                   /\ theta[i] = Arctan(Div(loc[i][1], loc[i][2]))
                   /\ ~NumLt(Cos(theta[i]), Zero)

WitnessThetaZero ==
    /\ InField /\ pc = "mf_rotate"
    /\ loc[1][2] = Zero /\ loc[1][1] = One
    /\ Brho[1] # Zero /\ Bf[1] = <<Brho[1], Zero, Bz[1]>>

====
